---- MODULE Spec2Model ----
\* A model of MapOptimizer (motion/optimizers/map_optimizer/optimizer.py):
\* the optimize() protocol of one optimizer instance, from the baseline run
\* through the improvement gate, candidate collection, the batched concurrent
\* evaluation, shortlisting, the pairwise tournament and the return.
EXTENDS Integers, Sequences, FiniteSets, TLC

\* ------------------------------------------------------------------ bounds

\* Plans returned by the four plan generators together in one optimize() call.
MaxGenerated == 1
\* Scores the assessment oracle hands out are 1..MaxScore.
MaxScore == 2
\* Evaluation tasks of one call that misbehave: raise, run past the timeout,
\* hang, or write to the records they were handed.
MaxFaults == 1
\* Head-to-head comparisons the tournament decides (each is one win).
MaxComparisons == 1
\* Records in the caller's input list.
MaxRecords == 2
\* optimize() calls made on one instance.
MaxCalls == 2
\* Largest cost the plan generator accumulates.
MaxCost == 1
\* Plans in a results map handed to the selection phase (SelSpec).
MaxSelPlans == 7
\* Candidate plans of a call whose evaluation runs in several batches (BatchSpec).
MaxBatchPlans == 6

\* ------------------------------------------------------- program constants

\* self._num_plans_to_evaluate_in_parallel
NumPlansToEvaluateInParallel == 5
\* sorted_results[:6]
TopPlans == 6
\* min(5, len(input_data))
MaxEvaluations == 5
\* timeout: int = 10
Timeout == 10

\* ------------------------------------------------------------------ values

Scores == 1..MaxScore

\* Seconds a pool task runs until it returns: at the timeout, and past it.
TaskRuntimes == {Timeout, Timeout + 1}

\* Seconds the synchronous baseline run takes on the calling thread.
BaselineRuntimes == {Timeout - 1}

Generators == <<"chunk_size", "gleaning", "chain", "parallel">>

\* The name a generator gives the plan it returns.
GeneratedName(g) == CASE g = "chunk_size" -> "chunk_size_1"
                      [] g = "gleaning" -> "gleaning_1"
                      [] g = "chain" -> "chain_1"
                      [] g = "parallel" -> "parallel_1"

NoOutput == [plan |-> "none", on |-> "none"]
NoTriple == [score |-> 0, runtime |-> 0, output |-> NoOutput]
NoReturn == [plan |-> "none", output |-> NoOutput, cost |-> -1]
NoArgs == [plans |-> <<>>, prompt |-> "none", samples |-> <<>>]

\* The caller's records; map_opt_id is 0 while a record carries no tag.
CallerInput == [k \in 1..MaxRecords |-> [v |-> k, map_opt_id |-> 0]]

VARIABLES
    is_filter,               \* self.is_filter
    reduce_optimizer_cost,   \* self.plan_generator.reduce_optimizer_cost
    ncalls,                  \* optimize() calls started on the instance
    pc,                      \* position of the controlling thread in optimize()
    raised_at,               \* where the call raised, "none" otherwise
    caller_input,            \* the caller's list, as the caller sees it
    input_data,              \* the local input_data (tagged deep copy)
    output_data,             \* output of the baseline run
    no_change_runtime,       \* wall-clock time of the baseline run
    validator_prompt,
    assessment,              \* what assessment.get("needs_improvement", ...) finds
    invoked,                 \* collaborators invoked since the assessment
    improved_prompt_plan,
    generated,               \* generator |-> the mapping it returned (a dict)
    plans_to_evaluate,       \* ordered dict: sequence of [name, body]
    evaluation_samples,
    i,                       \* start index of the current batch (0-based)
    task,                    \* plan name |-> state of its future
    faults,                  \* tasks of this call that misbehaved
    results,                 \* ordered dict: sequence of [name, score, runtime, output]
    filtered_results,        \* the shortlist, an ordered dict like results
    tournament_args,         \* what _pairwise_compare_plans was called with
    pairwise_rankings,       \* ordered dict: sequence of [name, wins]
    best_plan_name,
    ret                      \* the returned (plan, output, cost)

vars == <<is_filter, reduce_optimizer_cost, ncalls, pc, raised_at, caller_input,
          input_data, output_data, no_change_runtime, validator_prompt, assessment,
          invoked, improved_prompt_plan, generated, plans_to_evaluate,
          evaluation_samples, i, task, faults, results, filtered_results,
          tournament_args, pairwise_rankings, best_plan_name, ret>>

instance_vars == <<is_filter, reduce_optimizer_cost, ncalls>>
input_vars == <<caller_input, input_data, output_data, no_change_runtime, validator_prompt>>
plan_vars == <<improved_prompt_plan, generated, plans_to_evaluate, evaluation_samples>>
eval_vars == <<i, task, faults, results>>
select_vars == <<filtered_results, tournament_args, pairwise_rankings, best_plan_name>>

\* ------------------------------------------------------- ordered dicts

Range(s) == {s[k] : k \in 1..Len(s)}
Keys(d) == {d[k].name : k \in 1..Len(d)}
KeySeq(d) == [k \in 1..Len(d) |-> d[k].name]
HasKey(d, name) == \E k \in 1..Len(d) : d[k].name = name
Get(d, name) == d[CHOOSE k \in 1..Len(d) : d[k].name = name]

\* d[item.name] = item: a present key keeps its place, a new key goes last.
DictSet(d, item) ==
    IF HasKey(d, item.name)
    THEN [k \in 1..Len(d) |-> IF d[k].name = item.name THEN item ELSE d[k]]
    ELSE Append(d, item)

\* {**d, **e}
RECURSIVE DictUpdate(_, _)
DictUpdate(d, e) ==
    IF e = <<>> THEN d ELSE DictUpdate(DictSet(d, Head(e)), Tail(e))

Min(a, b) == IF a <= b THEN a ELSE b

\* ------------------------------------------------------------ the instance

\* State of the locals of optimize() while no call is running.
NoCall ==
    /\ raised_at = "none"
    /\ caller_input = CallerInput
    /\ input_data = <<>>
    /\ output_data = NoOutput
    /\ no_change_runtime = 0
    /\ validator_prompt = "none"
    /\ assessment = "none"
    /\ invoked = {}
    /\ improved_prompt_plan = "none"
    /\ generated = [g \in Range(Generators) |-> <<>>]
    /\ plans_to_evaluate = <<>>
    /\ evaluation_samples = <<>>
    /\ i = 0
    /\ task = <<>>
    /\ faults = 0
    /\ results = <<>>
    /\ filtered_results = <<>>
    /\ tournament_args = NoArgs
    /\ pairwise_rankings = <<>>
    /\ best_plan_name = "none"
    /\ ret = NoReturn

\* MapOptimizer.__init__: a fresh PlanGenerator, no call made yet.
Init ==
    /\ is_filter \in BOOLEAN
    /\ reduce_optimizer_cost = 0
    /\ ncalls = 0
    /\ pc = "idle"
    /\ NoCall

\* A raise that propagates out of optimize().
Raise(where) ==
    /\ pc' = "raised"
    /\ raised_at' = where

\* copy.deepcopy(input_data): an equal list of fresh records.
DeepCopy(records) == [k \in 1..Len(records) |-> records[k]]

\* input_data[i]["_map_opt_id"] = str(uuid.uuid4()), for every record.
TagRecords(records) ==
    [k \in 1..Len(records) |-> [records[k] EXCEPT !.map_opt_id = k]]

\* A local name bound to the caller's own list instead of a copy of it.
CallerList == "caller_input"

\* Line 131: the list the local input_data names after copy.deepcopy, a fresh
\* list that shares no record with the caller's.
LocalInputList == "deepcopy"

\* Lines 131-139: copy and tag the input, run the original operation on it.
\* The tags are written to the list input_data names.
RunBaseline ==
    /\ pc = "idle"
    /\ ncalls < MaxCalls
    /\ ncalls' = ncalls + 1
    /\ input_data' = TagRecords(DeepCopy(caller_input))
    /\ caller_input' = IF LocalInputList = "caller_input"
                       THEN TagRecords(caller_input)
                       ELSE caller_input
    /\ \/ /\ output_data' = [plan |-> "op_config", on |-> "input_data"]
          /\ \E r \in BaselineRuntimes : no_change_runtime' = r
          /\ pc' = "baseline"
          /\ UNCHANGED raised_at
       \/ /\ Raise("run_operation")
          /\ UNCHANGED <<output_data, no_change_runtime>>
    /\ UNCHANGED <<is_filter, reduce_optimizer_cost, validator_prompt,
                   assessment, invoked, plan_vars, eval_vars, select_vars, ret>>

\* Lines 141-144.
GenerateValidatorPrompt ==
    /\ pc = "baseline"
    /\ \/ /\ validator_prompt' = "validator_prompt"
          /\ pc' = "validator"
          /\ UNCHANGED raised_at
       \/ /\ Raise("generate_validator_prompt")
          /\ UNCHANGED validator_prompt
    /\ UNCHANGED <<instance_vars, caller_input, input_data, output_data,
                   no_change_runtime, assessment, invoked, plan_vars, eval_vars,
                   select_vars, ret>>

\* What the oracle may put under "needs_improvement": True, False, or nothing.
Assessments == {"true", "false", "missing"}

\* Lines 151-154.
AssessOperation ==
    /\ pc = "validator"
    /\ \/ /\ \E a \in Assessments : assessment' = a
          /\ pc' = "assessed"
          /\ UNCHANGED raised_at
       \/ /\ Raise("assess_operation")
          /\ UNCHANGED assessment
    /\ invoked' = {}
    /\ UNCHANGED <<instance_vars, input_vars, plan_vars, eval_vars, select_vars, ret>>

\* A gate that never closes: every assessment asks for improvement.
NeedsImprovementAlways(a) == TRUE

\* assessment.get("needs_improvement", True)
NeedsImprovement(a) == a # "false"

\* Lines 163-168: the improvement gate's early return.
GateReturn ==
    /\ pc = "assessed"
    /\ ~NeedsImprovement(assessment)
    /\ ret' = [plan |-> "op_config", output |-> output_data,
               cost |-> reduce_optimizer_cost]
    /\ pc' = "done"
    /\ UNCHANGED <<instance_vars, raised_at, input_vars, assessment, invoked,
                   plan_vars, eval_vars, select_vars>>

\* Lines 170-173.
GetImprovedPrompt ==
    /\ pc = "assessed"
    /\ NeedsImprovement(assessment)
    /\ improved_prompt_plan' = "improved_prompt"
    /\ invoked' = invoked \cup {"get_improved_prompt"}
    /\ pc' = "improved"
    /\ UNCHANGED <<instance_vars, raised_at, input_vars, assessment, generated,
                   plans_to_evaluate, evaluation_samples, eval_vars, select_vars, ret>>

\* Plans the generators have returned so far in this call.
NumGenerated ==
    Len(generated["chunk_size"]) + Len(generated["gleaning"])
        + Len(generated["chain"]) + Len(generated["parallel"])

\* What generator g may return: nothing, one plan under its own name, or one
\* plan under the name "no_change". A plan's body is told apart by its token.
GeneratorOutputs(g) ==
    {<<>>} \cup
    (IF NumGenerated < MaxGenerated
     THEN {<<[name |-> GeneratedName(g), body |-> GeneratedName(g)]>>,
           <<[name |-> "no_change", body |-> GeneratedName(g)]>>}
     ELSE {})

\* PlanGenerator adds what synthesizing a plan cost to reduce_optimizer_cost.
IncurCost(cost, plans) == Min(MaxCost, cost + Len(plans))

\* Lines 175-178.
GenerateChunkSizePlans ==
    /\ pc = "improved"
    /\ \E plans \in GeneratorOutputs("chunk_size") :
          /\ generated' = [generated EXCEPT !["chunk_size"] = plans]
          /\ reduce_optimizer_cost' = IncurCost(reduce_optimizer_cost, plans)
    /\ invoked' = invoked \cup {"generate_chunk_size_plans"}
    /\ pc' = "chunked"
    /\ UNCHANGED <<is_filter, ncalls, raised_at, input_vars, assessment,
                   improved_prompt_plan, plans_to_evaluate, evaluation_samples,
                   eval_vars, select_vars, ret>>

\* Lines 180-183.
GenerateGleaningPlans ==
    /\ pc = "chunked"
    /\ \E plans \in GeneratorOutputs("gleaning") :
          generated' = [generated EXCEPT !["gleaning"] = plans]
    /\ invoked' = invoked \cup {"generate_gleaning_plans"}
    /\ pc' = "gleaned"
    /\ UNCHANGED <<instance_vars, raised_at, input_vars, assessment,
                   improved_prompt_plan, plans_to_evaluate, evaluation_samples,
                   eval_vars, select_vars, ret>>

\* Lines 185-191.
GenerateChainPlans ==
    /\ pc = "gleaned"
    /\ IF ~is_filter
       THEN /\ \E plans \in GeneratorOutputs("chain") :
                 generated' = [generated EXCEPT !["chain"] = plans]
            /\ invoked' = invoked \cup {"generate_chain_plans"}
       ELSE /\ generated' = [generated EXCEPT !["chain"] = <<>>]
            /\ UNCHANGED invoked
    /\ pc' = "chained"
    /\ UNCHANGED <<instance_vars, raised_at, input_vars, assessment,
                   improved_prompt_plan, plans_to_evaluate, evaluation_samples,
                   eval_vars, select_vars, ret>>

\* Lines 193-199.
GenerateParallelPlans ==
    /\ pc = "chained"
    /\ IF ~is_filter
       THEN /\ \E plans \in GeneratorOutputs("parallel") :
                 generated' = [generated EXCEPT !["parallel"] = plans]
            /\ invoked' = invoked \cup {"generate_parallel_plans"}
       ELSE /\ generated' = [generated EXCEPT !["parallel"] = <<>>]
            /\ UNCHANGED invoked
    /\ pc' = "parallelized"
    /\ UNCHANGED <<instance_vars, raised_at, input_vars, assessment,
                   improved_prompt_plan, plans_to_evaluate, evaluation_samples,
                   eval_vars, select_vars, ret>>

\* Lines 202-209: the dict display; a later key replaces an earlier one's value.
PlansToEvaluate(improved, op_config, chunk, gleaning, chain, parallel) ==
    DictUpdate(DictUpdate(DictUpdate(DictUpdate(
        <<[name |-> "improved_instructions", body |-> improved],
          [name |-> "no_change", body |-> op_config]>>,
        chunk), gleaning), chain), parallel)

\* select_evaluation_samples(input_data, k): k records of input_data, none twice.
SelectEvaluationSamples(records, k) == SubSeq(records, 1, k)

\* Lines 201-216: the candidate map, the evaluation samples, an empty results.
SelectSamples ==
    /\ pc = "parallelized"
    /\ plans_to_evaluate' =
          PlansToEvaluate(improved_prompt_plan, "op_config", generated["chunk_size"],
                          generated["gleaning"], generated["chain"],
                          generated["parallel"])
    /\ evaluation_samples' =
          SelectEvaluationSamples(input_data, Min(MaxEvaluations, Len(input_data)))
    /\ invoked' = invoked \cup {"select_evaluation_samples"}
    /\ results' = <<>>
    /\ i' = 0
    /\ task' = [name \in Keys(plans_to_evaluate') |->
                  [status |-> "unsubmitted", batch |-> -1, result |-> NoTriple,
                   samples |-> <<>>, prompt |-> "none", holds |-> "none",
                   wrote |-> FALSE]]
    /\ pc' = "loop"
    /\ UNCHANGED <<instance_vars, raised_at, input_vars, assessment,
                   improved_prompt_plan, generated, faults, select_vars, ret>>

\* ------------------------------------------------- the batched evaluation

\* A slice one plan too long, so that consecutive batches overlap.
BatchOverlapping(plans_list, start) ==
    {plans_list[k].name :
        k \in (start + 1)..Min(start + NumPlansToEvaluateInParallel + 1, Len(plans_list))}

\* plans_list[i : i + P], as the set of its plan names.
Batch(plans_list, start) ==
    {plans_list[k].name :
        k \in (start + 1)..Min(start + NumPlansToEvaluateInParallel, Len(plans_list))}

\* Every task handed the list evaluation_samples itself.
SharedSamplesList(name) == "evaluation_samples"

\* Line 228: the list the task of plan name is handed, a fresh deep copy that
\* belongs to that task alone.
TaskSamplesList(name) == name

\* Lines 217-232: one pool per batch, one future per plan of the batch, each
\* given its own deep copy of the evaluation samples.
SubmitBatch ==
    /\ pc = "loop"
    /\ i < Len(plans_to_evaluate)
    /\ task' = [name \in DOMAIN task |->
                  IF name \in Batch(plans_to_evaluate, i)
                  THEN [task[name] EXCEPT !.status = "running",
                                          !.batch = i \div NumPlansToEvaluateInParallel,
                                          !.samples = DeepCopy(evaluation_samples),
                                          !.prompt = validator_prompt,
                                          !.holds = TaskSamplesList(name)]
                  ELSE task[name]]
    /\ invoked' = invoked \cup {"evaluate_plan"}
    /\ pc' = "as_completed"
    /\ UNCHANGED <<instance_vars, raised_at, input_vars, assessment, plan_vars,
                   i, faults, results, select_vars, ret>>

\* What a future can end as: _evaluate_plan returned its triple, raised
\* concurrent.futures.TimeoutError, or raised another Exception.
Outcomes == {"returned", "timeout_error", "raised"}

\* Whether a task's end is a fault: it raised, or it ran past the timeout.
IsFault(status, runtime) == status # "returned" \/ runtime > Timeout

\* A loop body that stores whatever the future holds, whether it returned or not.
CollectAlways(res, name, t) ==
    DictSet(res, [name |-> name, score |-> t.result.score,
                  runtime |-> t.result.runtime, output |-> t.result.output])

\* Lines 235-249, for a future as_completed has yielded: future.result(timeout)
\* of a finished future hands back what the task returned or raises what it
\* raised; only a returned triple is stored.
Collect(res, name, t) ==
    IF t.status = "returned"
    THEN DictSet(res, [name |-> name, score |-> t.result.score,
                       runtime |-> t.result.runtime, output |-> t.result.output])
    ELSE res

\* A running task of the batch ends, as_completed yields its future and the
\* loop body handles it.
TaskComplete ==
    /\ pc = "as_completed"
    /\ \E name \in DOMAIN task, status \in Outcomes, score \in Scores,
          runtime \in TaskRuntimes :
          /\ task[name].status = "running"
          /\ status # "returned" => (score = 1 /\ runtime = Timeout)
          /\ IsFault(status, runtime) => faults < MaxFaults
          /\ faults' = IF IsFault(status, runtime) THEN faults + 1 ELSE faults
          /\ task' = [task EXCEPT ![name] =
                        [@ EXCEPT !.status = status,
                                  !.result =
                                     IF status = "returned"
                                     THEN [score |-> score, runtime |-> runtime,
                                           output |-> [plan |-> Get(plans_to_evaluate, name).body,
                                                       on |-> "samples"]]
                                     ELSE NoTriple]]
          /\ results' = Collect(results, name, task'[name])
    /\ UNCHANGED <<instance_vars, pc, raised_at, input_vars, assessment, invoked,
                   plan_vars, i, select_vars, ret>>

\* What a task's write leaves of a list of records.
Written(records) == [k \in 1..Len(records) |-> [records[k] EXCEPT !.v = 0]]

\* A running task writes to the records it was handed: the write lands in the
\* list the task holds, and in evaluation_samples only if that is this list.
TaskWritesSamples ==
    /\ pc = "as_completed"
    /\ faults < MaxFaults
    /\ \E name \in DOMAIN task :
          /\ task[name].status = "running"
          /\ ~task[name].wrote
          /\ task' = [task EXCEPT ![name].wrote = TRUE]
          /\ evaluation_samples' = IF task[name].holds = "evaluation_samples"
                                   THEN Written(evaluation_samples)
                                   ELSE evaluation_samples
    /\ faults' = faults + 1
    /\ UNCHANGED <<instance_vars, pc, raised_at, input_vars, assessment, invoked,
                   improved_prompt_plan, generated, plans_to_evaluate, i, results,
                   select_vars, ret>>

\* A running task hangs inside the runner: its future never finishes.
TaskHang ==
    /\ pc = "as_completed"
    /\ faults < MaxFaults
    /\ \E name \in DOMAIN task :
          /\ task[name].status = "running"
          /\ task' = [task EXCEPT ![name].status = "hung"]
    /\ faults' = faults + 1
    /\ UNCHANGED <<instance_vars, pc, raised_at, input_vars, assessment, invoked,
                   plan_vars, i, results, select_vars, ret>>

\* A loop that leaves the batch without waiting for its futures.
BatchAbandoned == TRUE

\* as_completed(futures), without a timeout, is exhausted only once every
\* future of the batch has finished.
BatchResolved == \A name \in Batch(plans_to_evaluate, i) :
                    task[name].status \in Outcomes

\* Lines 233 and 217: the as_completed loop ends, the pool shuts down, and the
\* batch loop steps to the next batch or ends.
EndBatch ==
    /\ pc = "as_completed"
    /\ BatchResolved
    /\ i' = i + NumPlansToEvaluateInParallel
    /\ pc' = IF i' < Len(plans_to_evaluate) THEN "loop" ELSE "looped"
    /\ UNCHANGED <<instance_vars, raised_at, input_vars, assessment, invoked,
                   plan_vars, task, faults, results, select_vars, ret>>

\* ---------------------------------------------------------- the selection

\* No splice: the pool's triple for no_change stays as it is.
SpliceNothing(res, runtime) == res

\* Lines 251-256: the baseline's own runtime replaces the pool's.
Splice(res, runtime) ==
    DictSet(res, [Get(res, "no_change") EXCEPT !.runtime = runtime])

\* item goes behind every item whose score is at least its own.
RECURSIVE InsertByScore(_, _)
InsertByScore(sorted, item) ==
    IF sorted = <<>> THEN <<item>>
    ELSE IF Head(sorted).score >= item.score
         THEN <<Head(sorted)>> \o InsertByScore(Tail(sorted), item)
         ELSE <<item>> \o sorted

\* Line 274: sorted(results.items(), key=score, reverse=True), a stable sort.
RECURSIVE SortByScore(_, _)
SortByScore(sorted, rest) ==
    IF rest = <<>> THEN sorted
    ELSE SortByScore(InsertByScore(sorted, Head(rest)), Tail(rest))

SortedResults(res) == SortByScore(<<>>, res)

\* Line 277: sorted_results[:6]
TopOf(sorted) == SubSeq(sorted, 1, Min(TopPlans, Len(sorted)))

\* A tail score no plan has, so that no tie is ever taken in.
TailScoreNone(top) == -1

\* Line 280; -1 stands for float("-inf"), below every score.
TailScore(top) == IF Len(top) = TopPlans THEN top[TopPlans].score ELSE -1

\* A shortlist cut at the top plans, the ties with the last of them left out.
TiedWithTailDropped(sorted, top) == <<>>

\* Lines 283-287: the plans past the top ones that tie with the last of them.
TiedWithTail(sorted, top) ==
    SelectSeq(SubSeq(sorted, Len(top) + 1, Len(sorted)),
              LAMBDA item : item.score = TailScore(top))

\* Lines 273-288.
FilteredResults(res) ==
    LET sorted_results == SortedResults(res)
        top_plans == TopOf(sorted_results)
    IN  top_plans \o TiedWithTail(sorted_results, top_plans)

\* Lines 251-288: the splice, the sort and the shortlist; results["no_change"]
\* raises KeyError when the pool task of no_change stored nothing.
Shortlist ==
    /\ pc = "looped"
    /\ \/ /\ HasKey(results, "no_change")
          /\ results' = Splice(results, no_change_runtime)
          /\ filtered_results' = FilteredResults(results')
          /\ pc' = "shortlisted"
          /\ UNCHANGED raised_at
       \/ /\ ~HasKey(results, "no_change")
          /\ Raise("results[no_change]")
          /\ UNCHANGED <<results, filtered_results>>
    /\ UNCHANGED <<instance_vars, input_vars, assessment, invoked, plan_vars, i, task,
                   faults, tournament_args, pairwise_rankings, best_plan_name, ret>>

\* The last key, in iteration order, with the largest value.
RECURSIVE MaxKeyLast(_, _, _)
MaxKeyLast(d, k, best) ==
    IF k > Len(d) THEN d[best].name
    ELSE MaxKeyLast(d, k + 1, IF d[k].wins >= d[best].wins THEN k ELSE best)

PyMaxLast(d) == MaxKeyLast(d, 2, 1)

\* max(d, key=d.get): the first key, in iteration order, with the largest value.
RECURSIVE MaxKey(_, _, _)
MaxKey(d, k, best) ==
    IF k > Len(d) THEN d[best].name
    ELSE MaxKey(d, k + 1, IF d[k].wins > d[best].wins THEN k ELSE best)

PyMax(d) == MaxKey(d, 2, 1)

\* The ways in which at most MaxComparisons wins fall on k plans.
RECURSIVE WinVectors(_, _)
WinVectors(k, left) ==
    IF k = 0 THEN {<<>>}
    ELSE UNION {{<<w>> \o rest : rest \in WinVectors(k - 1, left - w)} : w \in 0..left}

WinVectorsOf == [k \in 0..(MaxSelPlans + 1) |-> WinVectors(k, MaxComparisons)]

\* _pairwise_compare_plans: a tally keyed by the plans it was given, in their
\* order, each comparison it decided being one win of one plan.
Tallies(plans) ==
    {[k \in 1..Len(plans) |-> [name |-> plans[k].name, wins |-> w[k]]] :
        w \in WinVectorsOf[Len(plans)]}

\* A tournament that needs three shortlisted plans.
RunsTournamentOverThree(filtered) == Len(filtered) > 2

\* Line 291: whether the tournament runs.
RunsTournament(filtered) == Len(filtered) > 1

\* A tournament over the full result set instead of the shortlist.
TournamentArgsAllResults(filtered, res, prompt, samples) ==
    [plans |-> KeySeq(res), prompt |-> prompt, samples |-> samples]

\* Lines 292-294: the arguments of _pairwise_compare_plans.
TournamentArgs(filtered, res, prompt, samples) ==
    [plans |-> KeySeq(filtered), prompt |-> prompt, samples |-> samples]

\* On return the futures and the results map go out of scope; the shortlist,
\* the tally and the choice stay on record.
PoolGone ==
    /\ i' = 0
    /\ task' = <<>>
    /\ faults' = 0
    /\ results' = <<>>

\* Lines 315-324: the winner's candidate plan, its recorded output, the cost.
Returned(plans, res, best, cost) ==
    [plan |-> Get(plans, best).body, output |-> Get(res, best).output, cost |-> cost]

\* Lines 291-295 and 304-324: the tournament over the shortlist decides the
\* winner, whose plan and output are returned.
Tournament ==
    /\ pc = "shortlisted"
    /\ RunsTournament(filtered_results)
    /\ tournament_args' = TournamentArgs(filtered_results, results, validator_prompt,
                                         evaluation_samples)
    /\ \E tally \in Tallies(filtered_results) :
          /\ pairwise_rankings' = tally
          /\ best_plan_name' = PyMax(tally)
    /\ invoked' = invoked \cup {"pairwise_compare_plans"}
    /\ ret' = Returned(plans_to_evaluate, results, best_plan_name', reduce_optimizer_cost)
    /\ pc' = "done"
    /\ PoolGone
    /\ UNCHANGED <<instance_vars, raised_at, input_vars, assessment, plan_vars,
                   filtered_results>>

\* Line 301: max(results, key=lambda x: results[x][0])
BestByScore(res) ==
    PyMax([k \in 1..Len(res) |-> [name |-> res[k].name, wins |-> res[k].score]])

\* Lines 297-302: the winner when no tournament runs.
SoleMember(filtered, res) ==
    IF filtered # <<>> THEN filtered[1].name ELSE BestByScore(res)

\* Lines 296-302 and 304-324: no tournament, a zero tally for every result, the
\* shortlist's first member wins and its plan and output are returned.
NoTournament ==
    /\ pc = "shortlisted"
    /\ ~RunsTournament(filtered_results)
    /\ pairwise_rankings' = [k \in 1..Len(results) |-> [name |-> results[k].name, wins |-> 0]]
    /\ best_plan_name' = SoleMember(filtered_results, results)
    /\ ret' = Returned(plans_to_evaluate, results, best_plan_name', reduce_optimizer_cost)
    /\ pc' = "done"
    /\ PoolGone
    /\ UNCHANGED <<instance_vars, raised_at, input_vars, assessment, invoked, plan_vars,
                   filtered_results, tournament_args>>

\* ------------------------------------------------------ specifications

\* One optimize() call on a freshly constructed instance.
Next ==
    \/ RunBaseline
    \/ GenerateValidatorPrompt
    \/ AssessOperation
    \/ GateReturn
    \/ GetImprovedPrompt
    \/ GenerateChunkSizePlans
    \/ GenerateGleaningPlans
    \/ GenerateChainPlans
    \/ GenerateParallelPlans
    \/ SelectSamples
    \/ SubmitBatch
    \/ TaskComplete
    \/ TaskWritesSamples
    \/ TaskHang
    \/ EndBatch
    \/ Shortlist
    \/ Tournament
    \/ NoTournament

Spec == Init /\ [][Next]_vars

\* The caller calls optimize() again once a call has returned or raised; the
\* locals of the call are gone, the instance and its collaborators stay.
NextCall ==
    /\ pc \in {"done", "raised"}
    /\ ncalls < MaxCalls
    /\ pc' = "idle"
    /\ raised_at' = "none"
    /\ input_data' = <<>>
    /\ output_data' = NoOutput
    /\ no_change_runtime' = 0
    /\ validator_prompt' = "none"
    /\ assessment' = "none"
    /\ invoked' = {}
    /\ improved_prompt_plan' = "none"
    /\ generated' = [g \in Range(Generators) |-> <<>>]
    /\ plans_to_evaluate' = <<>>
    /\ evaluation_samples' = <<>>
    /\ PoolGone
    /\ filtered_results' = <<>>
    /\ tournament_args' = NoArgs
    /\ pairwise_rankings' = <<>>
    /\ best_plan_name' = "none"
    /\ ret' = NoReturn
    /\ UNCHANGED <<instance_vars, caller_input>>

CallsNext == Next \/ NextCall

\* A sequence of optimize() calls on one instance.
CallsSpec == Init /\ [][CallsNext]_vars

\* ------------------------------------------- the selection phase alone

\* Candidate names of a call whose generators returned several plans each.
SelPlanNames ==
    <<"improved_instructions", "no_change", "chunk_size_1", "chunk_size_2",
      "gleaning_1", "gleaning_2", "chain_1", "parallel_1", "parallel_2">>

SelGenerator(name) ==
    CASE name \in {"chunk_size_1", "chunk_size_2"} -> "chunk_size"
      [] name \in {"gleaning_1", "gleaning_2"} -> "gleaning"
      [] name \in {"chain_1"} -> "chain"
      [] name \in {"parallel_1", "parallel_2"} -> "parallel"
      [] OTHER -> "none"

SelBody(name) ==
    CASE name = "improved_instructions" -> "improved_prompt"
      [] name = "no_change" -> "op_config"
      [] OTHER -> name

\* The scores of the seven-plan scenario, best first and worst first.
ScenarioScores == {<<9, 9, 8, 7, 6, 5, 5>>, <<5, 5, 6, 7, 8, 9, 9>>}

SelScores(n) == [1..n -> Scores] \cup {v \in ScenarioScores : Len(v) = n}

\* The order in which the plans' futures were handled: batch by batch, within
\* a batch in submission order or in the reverse of it.
SelOrder(n, reversed) ==
    [k \in 1..n |->
        LET b == (k - 1) \div NumPlansToEvaluateInParallel
            lo == b * NumPlansToEvaluateInParallel + 1
            hi == Min(n, lo + NumPlansToEvaluateInParallel - 1)
        IN  IF reversed THEN hi - (k - lo) ELSE k]

\* Which tasks raised: none, the one of no_change, or all but that one.
SelFailures == {"none", "no_change", "others"}

SelFailed(name, failures) ==
    \/ failures = "no_change" /\ name = "no_change"
    \/ failures = "others" /\ name # "no_change"

\* The state at the end of the batch loop of a call over n candidates whose
\* tasks scored as in the vector score.
SelState(n, score, reversed, failures) ==
    LET names == SubSeq(SelPlanNames, 1, n)
        triple(k) == [score |-> score[k], runtime |-> Timeout,
                      output |-> [plan |-> SelBody(names[k]), on |-> "samples"]]
        order == SelOrder(n, reversed)
        all == [k \in 1..n |->
                  [name |-> names[order[k]], score |-> triple(order[k]).score,
                   runtime |-> triple(order[k]).runtime,
                   output |-> triple(order[k]).output]]
    IN
    /\ is_filter = FALSE
    /\ reduce_optimizer_cost = 0
    /\ ncalls = 1
    /\ pc = "looped"
    /\ raised_at = "none"
    /\ caller_input = CallerInput
    /\ input_data = TagRecords(DeepCopy(CallerInput))
    /\ output_data = [plan |-> "op_config", on |-> "input_data"]
    /\ no_change_runtime \in BaselineRuntimes
    /\ validator_prompt = "validator_prompt"
    /\ assessment = "true"
    /\ invoked = {"get_improved_prompt", "generate_chunk_size_plans",
                  "generate_gleaning_plans", "generate_chain_plans",
                  "generate_parallel_plans", "select_evaluation_samples",
                  "evaluate_plan"}
    /\ improved_prompt_plan = "improved_prompt"
    /\ generated = [g \in Range(Generators) |->
                      SelectSeq([k \in 1..n |-> [name |-> names[k], body |-> SelBody(names[k])]],
                                LAMBDA plan : SelGenerator(plan.name) = g)]
    /\ plans_to_evaluate = [k \in 1..n |-> [name |-> names[k], body |-> SelBody(names[k])]]
    /\ evaluation_samples =
          SelectEvaluationSamples(input_data, Min(MaxEvaluations, Len(input_data)))
    /\ i = ((n + NumPlansToEvaluateInParallel - 1) \div NumPlansToEvaluateInParallel)
              * NumPlansToEvaluateInParallel
    /\ task = [name \in Range(names) |->
                 LET k == CHOOSE j \in 1..n : names[j] = name IN
                 [status |-> IF SelFailed(name, failures) THEN "raised" ELSE "returned",
                  batch |-> (k - 1) \div NumPlansToEvaluateInParallel,
                  result |-> IF SelFailed(name, failures) THEN NoTriple ELSE triple(k),
                  samples |-> DeepCopy(evaluation_samples),
                  prompt |-> validator_prompt,
                  holds |-> TaskSamplesList(name),
                  wrote |-> FALSE]]
    /\ faults = Cardinality({name \in Range(names) : SelFailed(name, failures)})
    /\ results = SelectSeq(all, LAMBDA item : ~SelFailed(item.name, failures))
    /\ filtered_results = <<>>
    /\ tournament_args = NoArgs
    /\ pairwise_rankings = <<>>
    /\ best_plan_name = "none"
    /\ ret = NoReturn

SelInit ==
    \E n \in 2..MaxSelPlans :
        \E score \in SelScores(n), reversed \in BOOLEAN, failures \in SelFailures :
            SelState(n, score, reversed, failures)

SelNext ==
    \/ Shortlist
    \/ Tournament
    \/ NoTournament

\* The selection phase, from the end of the batch loop, over results maps of
\* up to MaxSelPlans plans.
SelSpec == SelInit /\ [][SelNext]_vars

\* ------------------------------------------- the evaluation in batches

\* The state before line 201 of a call whose generators returned n - 2 plans.
BatchState(n) ==
    LET names == SubSeq(SelPlanNames, 1, n) IN
    /\ is_filter = FALSE
    /\ reduce_optimizer_cost = 0
    /\ ncalls = 1
    /\ pc = "parallelized"
    /\ raised_at = "none"
    /\ caller_input = CallerInput
    /\ input_data = TagRecords(DeepCopy(CallerInput))
    /\ output_data = [plan |-> "op_config", on |-> "input_data"]
    /\ no_change_runtime \in BaselineRuntimes
    /\ validator_prompt = "validator_prompt"
    /\ assessment = "true"
    /\ invoked = {"get_improved_prompt", "generate_chunk_size_plans",
                  "generate_gleaning_plans", "generate_chain_plans",
                  "generate_parallel_plans"}
    /\ improved_prompt_plan = "improved_prompt"
    /\ generated = [g \in Range(Generators) |->
                      SelectSeq([k \in 1..n |-> [name |-> names[k], body |-> SelBody(names[k])]],
                                LAMBDA plan : SelGenerator(plan.name) = g)]
    /\ plans_to_evaluate = <<>>
    /\ evaluation_samples = <<>>
    /\ i = 0
    /\ task = <<>>
    /\ faults = 0
    /\ results = <<>>
    /\ filtered_results = <<>>
    /\ tournament_args = NoArgs
    /\ pairwise_rankings = <<>>
    /\ best_plan_name = "none"
    /\ ret = NoReturn

BatchInit == \E n \in 2..MaxBatchPlans : BatchState(n)

BatchNext ==
    \/ SelectSamples
    \/ SubmitBatch
    \/ TaskComplete
    \/ TaskWritesSamples
    \/ TaskHang
    \/ EndBatch
    \/ Shortlist
    \/ Tournament
    \/ NoTournament

\* A call from the candidate collection on, over up to MaxBatchPlans candidates.
BatchSpec == BatchInit /\ [][BatchNext]_vars

\* ------------------------------------------------------------- properties

\* C1: after the batch loop, whatever the tasks' outcomes, the keys of results
\* are requested plan names and "no_change" is one of them.
C1_ResultsHoldNoChange ==
    pc = "looped" =>
        /\ Keys(results) \subseteq Keys(plans_to_evaluate)
        /\ "no_change" \in Keys(results)

\* C2: once the baseline run, the rubric and the initial assessment have
\* succeeded, the call does not raise: a call that raised did so in one of
\* those three.
C2_EvaluationFailuresNeverAbort ==
    pc = "raised" =>
        raised_at \in {"run_operation", "generate_validator_prompt", "assess_operation"}

\* C3: the result of a task that ran longer than the timeout is not stored:
\* its plan's name is not a key of results.
C3_LateResultNeverStored ==
    \A name \in DOMAIN task :
        (task[name].status = "returned" /\ task[name].result.runtime > Timeout)
            => ~HasKey(results, name)

\* A task of the current batch hangs while every other task of it has returned
\* its triple.
OnlyHungLeft ==
    /\ pc = "as_completed"
    /\ \E name \in Batch(plans_to_evaluate, i) : task[name].status = "hung"
    /\ \A name \in Batch(plans_to_evaluate, i) : task[name].status \in {"returned", "hung"}

\* C4: a task that never finishes does not block the call: with the other
\* tasks finished, the controlling thread can still take its next step.
C4_HungTaskDoesNotBlock == OnlyHungLeft => ENABLED Next

\* C5: when the assessment says no improvement is needed, the call returns at
\* the gate with [op_config] and the baseline output, and no generator, no
\* sample selection, no evaluation task and no tournament is invoked.
C5_GateShortCircuits ==
    (assessment = "false" /\ pc # "assessed") =>
        /\ pc = "done"
        /\ ret.plan = "op_config"
        /\ ret.output = output_data
        /\ invoked = {}
        /\ improved_prompt_plan = "none"
        /\ \A g \in Range(Generators) : generated[g] = <<>>
        /\ plans_to_evaluate = <<>>
        /\ evaluation_samples = <<>>
        /\ task = <<>>
        /\ tournament_args = NoArgs

C5_Witness ==
    /\ pc = "done"
    /\ assessment = "false"
    /\ ret.plan = "op_config"
    /\ ret.output = [plan |-> "op_config", on |-> "input_data"]

\* C6: a call that exits at the improvement gate returns cost 0, whatever
\* calls were made on the instance before.
C6_GateReturnsZeroCost ==
    (pc = "done" /\ assessment = "false") => ret.cost = 0

\* How many results score strictly above s.
ScoredAbove(res, s) == Cardinality({k \in 1..Len(res) : res[k].score > s})

\* How many results score exactly s.
Scored(res, s) == Cardinality({k \in 1..Len(res) : res[k].score = s})

\* The scores of the results are 9, 9, 8, 7, 6, 5, 5 in some order.
SevenPlanScenario ==
    /\ Len(results) = 7
    /\ Scored(results, 9) = 2
    /\ Scored(results, 8) = 1
    /\ Scored(results, 7) = 1
    /\ Scored(results, 6) = 1
    /\ Scored(results, 5) = 2

\* C7: the shortlist is never empty and holds exactly the plans whose score is
\* at least the 6th-highest score (all plans when there are 6 or fewer), each
\* with its own result; for the scores 9, 9, 8, 7, 6, 5, 5 it has 7 members.
C7_ShortlistTieComplete ==
    pc = "shortlisted" =>
        /\ filtered_results # <<>>
        /\ Keys(filtered_results) =
              {results[k].name : k \in {j \in 1..Len(results) :
                                          ScoredAbove(results, results[j].score) < TopPlans}}
        /\ Len(filtered_results) = Cardinality(Keys(filtered_results))
        /\ Range(filtered_results) \subseteq Range(results)
        /\ SevenPlanScenario => Len(filtered_results) = 7

C7_Witness ==
    /\ pc = "shortlisted"
    /\ SevenPlanScenario
    /\ Len(filtered_results) = 7

\* C8: the tournament is invoked exactly when the shortlist has more than one
\* member, on exactly the shortlisted plans with the evaluation samples and the
\* validator prompt the evaluation tasks got; with one member there is no
\* tournament, every result gets tally 0 and the sole member wins.
C8_TournamentOverShortlist ==
    [][pc = "shortlisted" =>
          IF Len(filtered_results) > 1
          THEN /\ "pairwise_compare_plans" \in invoked'
               /\ tournament_args'.plans = KeySeq(filtered_results)
               /\ \A name \in DOMAIN task :
                     task[name].status = "returned" =>
                        /\ tournament_args'.samples = task[name].samples
                        /\ tournament_args'.prompt = task[name].prompt
          ELSE /\ "pairwise_compare_plans" \notin invoked'
               /\ tournament_args' = NoArgs
               /\ KeySeq(pairwise_rankings') = KeySeq(results)
               /\ \A k \in 1..Len(pairwise_rankings') : pairwise_rankings'[k].wins = 0
               /\ Len(filtered_results) = 1
               /\ best_plan_name' = filtered_results[1].name]_vars

C8_Witness ==
    /\ pc = "done"
    /\ "pairwise_compare_plans" \in invoked
    /\ Len(tournament_args.plans) >= TopPlans
    /\ Len(tournament_args.plans) < Len(plans_to_evaluate)

\* The tournament ran and left the tally in pairwise_rankings.
TournamentRan == pc = "done" /\ "pairwise_compare_plans" \in invoked

\* C9: when the tournament runs, the winner has the largest tally, and among
\* the plans that share it the winner is the first in the tally's order.
C9_WinnerFirstMaxTally ==
    TournamentRan =>
        \E k \in 1..Len(pairwise_rankings) :
            /\ pairwise_rankings[k].name = best_plan_name
            /\ \A j \in 1..Len(pairwise_rankings) :
                  /\ pairwise_rankings[j].wins <= pairwise_rankings[k].wins
                  /\ j < k => pairwise_rankings[j].wins < pairwise_rankings[k].wins

C9_Witness ==
    /\ TournamentRan
    /\ \E j, k \in 1..Len(pairwise_rankings) :
          /\ j < k
          /\ pairwise_rankings[j].name = best_plan_name
          /\ pairwise_rankings[j].wins = pairwise_rankings[k].wins
          /\ \A m \in 1..Len(pairwise_rankings) :
                pairwise_rankings[m].wins <= pairwise_rankings[j].wins

\* The task of every candidate but no_change raised.
AllButNoChangeRaised ==
    \A name \in DOMAIN task : name # "no_change" => task[name].status = "raised"

\* C10: when the task of every candidate except no_change raises, the call
\* returns the no_change plan, [op_config], and the tournament is skipped.
C10_FallsBackToNoChange ==
    [][(pc = "shortlisted" /\ AllButNoChangeRaised) =>
          /\ pc' = "done"
          /\ best_plan_name' = "no_change"
          /\ ret'.plan = "op_config"
          /\ tournament_args' = NoArgs]_vars

\* C11: once the candidate map is built it has the name no_change bound to
\* [op_config], whatever the generators returned, and a call whose winner is
\* no_change returns [op_config].
C11_NoChangeIsOriginal ==
    /\ plans_to_evaluate # <<>> =>
          /\ HasKey(plans_to_evaluate, "no_change")
          /\ Get(plans_to_evaluate, "no_change").body = "op_config"
    /\ (pc = "done" /\ best_plan_name = "no_change") => ret.plan = "op_config"

\* The batch a plan belongs to by its place in the plan list.
PlanBatch(name) ==
    ((CHOOSE k \in 1..Len(plans_to_evaluate) : plans_to_evaluate[k].name = name) - 1)
        \div NumPlansToEvaluateInParallel

\* The tasks in flight: submitted and not finished.
InFlight == {name \in DOMAIN task : task[name].status \in {"running", "hung"}}

\* C12: while a task of a batch is unresolved (unsubmitted, running or hung),
\* no task of a later batch has been submitted; a task that ran past the
\* timeout holds the next batch back until it ends.
C12_BatchesSequential ==
    \A n, m \in DOMAIN task :
        (PlanBatch(m) > PlanBatch(n) /\ task[m].status # "unsubmitted")
            => task[n].status \in Outcomes

C12_Witness ==
    \E n, m \in DOMAIN task :
        /\ PlanBatch(n) = 0
        /\ task[n].status = "returned"
        /\ task[n].result.runtime > Timeout
        /\ PlanBatch(m) = 1
        /\ task[m].status = "running"

\* C13: a plan is submitted in the batch of its place in the plan list and in
\* no other, once; at most P tasks are in flight; after the loop every plan
\* has been submitted.
C13_PartitionIntoBatches ==
    /\ [](/\ \A name \in DOMAIN task :
                task[name].status # "unsubmitted" => task[name].batch = PlanBatch(name)
          /\ Cardinality(InFlight) <= NumPlansToEvaluateInParallel
          /\ pc \in {"looped", "shortlisted"} =>
                \A name \in Keys(plans_to_evaluate) :
                    name \in DOMAIN task /\ task[name].status # "unsubmitted")
    /\ [][\A name \in DOMAIN task \cap DOMAIN task' :
             (task'[name].status = "running" /\ task[name].status # "running")
                 => task[name].status = "unsubmitted"]_vars

C13_Witness ==
    /\ pc = "looped"
    /\ Len(plans_to_evaluate) > NumPlansToEvaluateInParallel
    /\ \A name \in DOMAIN task : task[name].status = "returned"
    /\ \E n, m \in DOMAIN task : task[n].batch = 0 /\ task[m].batch = 1

\* C14: during and after the batch loop a plan whose task raised is absent from
\* results, and a plan whose task returned within the timeout is present, once,
\* with the triple its own task returned, computed from its own plan.
C14_FailureIsolation ==
    pc \in {"as_completed", "loop", "looped"} =>
        /\ Len(results) = Cardinality(Keys(results))
        /\ \A name \in DOMAIN task :
              /\ task[name].status \in {"raised", "timeout_error"} => ~HasKey(results, name)
              /\ (task[name].status = "returned" /\ task[name].result.runtime <= Timeout) =>
                    /\ HasKey(results, name)
                    /\ Get(results, name) =
                          [name |-> name, score |-> task[name].result.score,
                           runtime |-> task[name].result.runtime,
                           output |-> task[name].result.output]
                    /\ Get(results, name).output.plan = Get(plans_to_evaluate, name).body

C14_Witness ==
    /\ pc = "looped"
    /\ \E f, n, m \in DOMAIN task :
          /\ task[f].status = "raised" /\ task[f].batch = 0
          /\ task[n].status = "returned" /\ task[n].batch = 0
          /\ task[m].status = "returned" /\ task[m].batch = 1
          /\ HasKey(results, n) /\ HasKey(results, m)
    /\ \E k \in 1..Len(results) : PlanBatch(results[k].name) = 0 /\ k > 1
          /\ PlanBatch(results[k - 1].name) = 0
          /\ (CHOOSE j \in 1..Len(plans_to_evaluate) : plans_to_evaluate[j].name = results[k].name)
                < (CHOOSE j \in 1..Len(plans_to_evaluate) : plans_to_evaluate[j].name = results[k - 1].name)

\* The samples select_evaluation_samples picked for this call.
OriginalSamples ==
    SelectEvaluationSamples(input_data, Min(MaxEvaluations, Len(input_data)))

\* C15: every task was handed a list of its own whose records, when the task
\* started, equalled the originally selected samples, and the tournament got
\* records equal to them too, even after a task wrote to its records.
C15_SampleIsolation ==
    /\ \A name \in DOMAIN task :
          task[name].status # "unsubmitted" =>
              /\ task[name].samples = OriginalSamples
              /\ task[name].holds # "evaluation_samples"
              /\ \A other \in DOMAIN task :
                    (other # name /\ task[other].status # "unsubmitted")
                        => task[other].holds # task[name].holds
    /\ plans_to_evaluate # <<>> => evaluation_samples = OriginalSamples
    /\ tournament_args # NoArgs => tournament_args.samples = OriginalSamples

C15_Witness ==
    /\ pc = "as_completed"
    /\ \E n, m \in DOMAIN task :
          /\ task[n].wrote
          /\ task[n].batch = 0
          /\ task[m].batch = 1
          /\ task[m].status = "running"
          /\ task[m].samples = OriginalSamples

\* C16: the splice sets the runtime of no_change in results to the runtime
\* measured for the synchronous baseline run, keeps its score and output, and
\* leaves every other entry and the order of the entries as they were.
C16_SpliceKeepsBaselineRuntime ==
    [][(pc = "looped" /\ pc' = "shortlisted") =>
          /\ KeySeq(results') = KeySeq(results)
          /\ Get(results', "no_change").runtime = no_change_runtime
          /\ Get(results', "no_change").score = Get(results, "no_change").score
          /\ Get(results', "no_change").output = Get(results, "no_change").output
          /\ \A k \in 1..Len(results) :
                results[k].name # "no_change" => results'[k] = results[k]]_vars

C16_Witness ==
    /\ pc = "shortlisted"
    /\ Len(results) > 1
    /\ Get(results, "no_change").runtime = no_change_runtime
    /\ task["no_change"].result.runtime # no_change_runtime
    /\ Get(results, "no_change").score = task["no_change"].result.score

\* C17: a call that returns past the gate returns a winner from the shortlist,
\* the candidate plan and the recorded output of that name, and never a plan
\* whose task raised, ran past the timeout or fell below the shortlist.
C17_WinnerIsShortlistedSurvivor ==
    [][(pc = "shortlisted" /\ pc' = "done") =>
          /\ best_plan_name' \in Keys(filtered_results)
          /\ Keys(filtered_results) \subseteq Keys(results)
          /\ ret'.plan = Get(plans_to_evaluate, best_plan_name').body
          /\ ret'.output = Get(results, best_plan_name').output
          /\ task[best_plan_name'].status = "returned"
          /\ task[best_plan_name'].result.runtime <= Timeout]_vars

\* The entries of res in the order in which their plans were submitted.
InSubmissionOrder(res, plans) ==
    LET present == SelectSeq(plans, LAMBDA plan : HasKey(res, plan.name))
    IN  [k \in 1..Len(present) |-> Get(res, present[k].name)]

Reversed(seq) == [k \in 1..Len(seq) |-> seq[Len(seq) + 1 - k]]

\* C18: the set of shortlisted names is the one a run with the same scores gets
\* whose tasks complete in submission order, or in the reverse of it.
C18_ShortlistSetFromScores ==
    pc = "shortlisted" =>
        LET ordered == InSubmissionOrder(results, plans_to_evaluate) IN
        /\ Keys(filtered_results) = Keys(FilteredResults(ordered))
        /\ Keys(filtered_results) = Keys(FilteredResults(Reversed(ordered)))

C18_Witness ==
    /\ pc = "shortlisted"
    /\ results # InSubmissionOrder(results, plans_to_evaluate)
    /\ Len(results) > TopPlans
    /\ Len(filtered_results) = TopPlans

\* C19: the shortlist is never empty; the tournament is skipped exactly when
\* no_change is the only plan in results; with two or more plans in results the
\* shortlist has two or more members and the winner is the tally's choice.
C19_TournamentUnlessAlone ==
    [][pc = "shortlisted" =>
          /\ filtered_results # <<>>
          /\ ("pairwise_compare_plans" \notin invoked') <=> (Keys(results) = {"no_change"})
          /\ Len(results) >= 2 =>
                /\ Len(filtered_results) >= 2
                /\ Keys(pairwise_rankings') = Keys(filtered_results)
                /\ best_plan_name' = PyMax(pairwise_rankings')]_vars

C19_Witness ==
    /\ pc = "done"
    /\ "pairwise_compare_plans" \in invoked
    /\ \E j, k \in 1..Len(filtered_results) :
          /\ filtered_results[j].score >= filtered_results[k].score + 4
          /\ best_plan_name = filtered_results[k].name

\* C20: the caller's list is never changed; from the start of the call on the
\* local input_data holds one record per caller record, equal to it but for a
\* tag of its own.
C20_CallerInputUntouched ==
    /\ caller_input = CallerInput
    /\ pc # "idle" =>
          /\ Len(input_data) = Len(caller_input)
          /\ \A k \in 1..Len(input_data) :
                /\ input_data[k].v = caller_input[k].v
                /\ input_data[k].map_opt_id # 0
                /\ \A j \in 1..Len(input_data) :
                      j # k => input_data[j].map_opt_id # input_data[k].map_opt_id

C20_Witness ==
    /\ pc = "raised"
    /\ ncalls = MaxCalls
    /\ input_data # <<>>
    /\ \A k \in 1..Len(input_data) :
          input_data[k].map_opt_id # 0 /\ caller_input[k].map_opt_id = 0

====
